---- MODULE Spec2Model ----
(***************************************************************************)
(* A model of vigenere.c: the command-line Vigenere cipher.                *)
(*                                                                         *)
(* Characters are ASCII codes (0..127).  A C string is the sequence of its *)
(* characters without the terminator; a heap buffer is the sequence of its *)
(* cells (cell i of the C array is element i+1), each a character or       *)
(* Uninit.  Two specifications share the actions:                          *)
(*   Spec      one invocation of the program, from argv to exit;           *)
(*   SpecPipe  generate_keystream followed by encrypt/decrypt on a config  *)
(*             built by build_config, run twice: the second pass takes     *)
(*             the first pass's output as its message, in the other mode.  *)
(***************************************************************************)
EXTENDS Integers, Sequences, FiniteSets, TLC

VARIABLES argv, pc, config, ks_written, ks_read, out_written,
          stdout, stderr, exit_status, pass, orig

vars == <<argv, pc, config, ks_written, ks_read, out_written,
          stdout, stderr, exit_status, pass, orig>>

(***************************************************************************)
(* Bounds of the model.                                                    *)
(***************************************************************************)
MaxArgc == 6
MaxLen == 3
MaxKeyLen == 2

(***************************************************************************)
(* Program constants.                                                      *)
(***************************************************************************)
CHAR_SPACE == 26
ASCII_HIGHER_OFFSET == 65
ASCII_LOWER_OFFSET == ASCII_HIGHER_OFFSET + 32  \* 'A' ^ 0x20, bit 5 of 'A' is clear
Encrypt == 0
Decrypt == 1
Help == 0
Usage == 1
EXIT_SUCCESS == "EXIT_SUCCESS"
EXIT_FAILURE == "EXIT_FAILURE"
SIGFPE == "SIGFPE"              \* killed by the integer division trap
NotExited == "running"
usage_str == "usage_str"
help_str == "help_str"
NUL == 0
Space == 32
Newline == 10
Uninit == -1                    \* a malloc'ed cell nothing has written yet
NullBuf == <<>>                 \* a char* member nothing has assigned yet

Str_h == <<45, 104>>            \* "-h"
Str_m == <<45, 109>>            \* "-m"
Str_k == <<45, 107>>            \* "-k"
Str_empty == <<>>               \* "\0"

(***************************************************************************)
(* <ctype.h> and <string.h>, in the C locale.                              *)
(***************************************************************************)
isupper(c) == c >= 65 /\ c <= 90
islower(c) == c >= 97 /\ c <= 122
isalpha(c) == isupper(c) \/ islower(c)
isdigit(c) == c >= 48 /\ c <= 57
toupper(c) == IF islower(c) THEN c - 32 ELSE c

strlen(s) == Len(s)

\* s[i] of a C string: its characters, then the terminator.
CharAt(s, i) == IF i < Len(s) THEN s[i + 1] ELSE NUL

RECURSIVE strncmp_from(_, _, _, _)
strncmp_from(a, b, n, i) ==
  IF i >= n THEN 0
  ELSE IF CharAt(a, i) # CharAt(b, i) THEN CharAt(a, i) - CharAt(b, i)
  ELSE IF CharAt(a, i) = NUL THEN 0
  ELSE strncmp_from(a, b, n, i + 1)

strncmp(a, b, n) == strncmp_from(a, b, n, 0)

\* C's %: the remainder of the division truncated toward zero.
CRem(a, b) == IF a >= 0 THEN a % b ELSE 0 - ((0 - a) % b)

(***************************************************************************)
(* Heap buffers.                                                           *)
(***************************************************************************)
malloc(n) == [i \in 1..n |-> Uninit]

\* buf[i] = v, recording the index; a store outside the allocation changes
\* no cell of this buffer and is still recorded.
Store(st, i, v) ==
  [st EXCEPT !.cells = IF i >= 0 /\ i < Len(st.cells)
                       THEN [st.cells EXCEPT ![i + 1] = v] ELSE st.cells,
             !.written = st.written \cup {i}]

\* The string printf("%s") sees in a buffer: the cells before the first NUL.
RECURSIVE CStrFrom(_, _)
CStrFrom(buf, i) ==
  IF i >= Len(buf) \/ buf[i + 1] = NUL THEN <<>>
  ELSE <<buf[i + 1]>> \o CStrFrom(buf, i + 1)

CStr(buf) == CStrFrom(buf, 0)

(***************************************************************************)
(* exit_print_info: the usage line, or the usage line and the help text,   *)
(* on stderr; then exit(EXIT_FAILURE).                                     *)
(***************************************************************************)
exit_print_info(type) ==
  [exited |-> TRUE,
   stderr |-> IF type # 0 THEN <<usage_str>> ELSE <<usage_str, help_str>>,
   status |-> EXIT_FAILURE,
   config |-> [option |-> Encrypt, message |-> NullBuf, key |-> NullBuf,
               keystream |-> NullBuf, output |-> NullBuf]]

build_config(option, message, key) ==
  [option |-> option, message |-> message, key |-> key,
   keystream |-> NullBuf, output |-> NullBuf]

(***************************************************************************)
(* parse_args.  av is argv, argv[n] of the C code is av[n + 1].            *)
(***************************************************************************)
parse_args(av) ==
  LET argc == Len(av)
      Arg(n) == av[n + 1]
  IN
  IF argc < 2 THEN exit_print_info(Usage)
  ELSE IF argc > 1 /\ strncmp(Arg(1), Str_h, strlen(Arg(1))) = 0
    THEN exit_print_info(Help)
  ELSE IF strncmp(Arg(1), Str_empty, strlen(Arg(1))) = 0
    THEN exit_print_info(Usage)
  ELSE IF ~(argc > 3 /\ strncmp(Arg(2), Str_m, strlen(Arg(2))) = 0)
    THEN exit_print_info(Usage)
  ELSE IF ~isdigit(CharAt(Arg(3), 0))
    THEN exit_print_info(Usage)
  ELSE IF ~(argc > 5 /\ strncmp(Arg(4), Str_k, strlen(Arg(4))) = 0)
    THEN exit_print_info(Usage)
  ELSE [exited |-> FALSE, stderr |-> <<>>, status |-> NotExited,
        config |-> build_config(CharAt(Arg(3), 0) % 2, Arg(1), Arg(5))]

(***************************************************************************)
(* generate_keystream.                                                     *)
(***************************************************************************)
\* The index into the key: (key_ctr - key_offset) % key_len, key_len > 0.
key_index_no_offset(key_ctr, key_offset, key_len) == key_ctr % key_len

key_index(key_ctr, key_offset, key_len) == (key_ctr - key_offset) % key_len

\* The positions of the message the loop treats as letters.
LetterIdx(message) ==
  {i \in 0..(strlen(message) - 1) : isalpha(CharAt(message, i))}

\* key_len = 0 makes the index computation a division by zero: undefined.
KeystreamUndefined(cfg) == strlen(cfg.key) = 0 /\ LetterIdx(cfg.message) # {}

\* st = [cells, written]; g gives the cell's value where the read of the key
\* is undefined (key_len = 0).
RECURSIVE keystream_loop(_, _, _, _, _)
keystream_loop(cfg, key_ctr, key_offset, st, g) ==
  IF ~(key_ctr <= strlen(cfg.message) /\ CharAt(cfg.message, key_ctr) # NUL)
  THEN st
  ELSE IF ~isalpha(CharAt(cfg.message, key_ctr))
  THEN keystream_loop(cfg, key_ctr + 1, key_offset + 1,
                      Store(st, key_ctr, Space), g)
  ELSE keystream_loop(cfg, key_ctr + 1, key_offset,
         Store(st, key_ctr,
               IF strlen(cfg.key) = 0 THEN toupper(g[key_ctr])
               ELSE toupper(CharAt(cfg.key,
                      key_index(key_ctr, key_offset, strlen(cfg.key))))), g)

generate_keystream(cfg, g) ==
  keystream_loop(cfg, 0, 0,
                 [cells |-> malloc(strlen(cfg.message) + 1), written |-> {}], g)

(***************************************************************************)
(* encrypt and decrypt.  st = [cells, written, read]: the output buffer,   *)
(* the indices stored to, the keystream indices read.  u is the value an   *)
(* undefined read of the keystream (a cell never written, or one outside   *)
(* the buffer) yields.                                                     *)
(***************************************************************************)
KsRead(cfg, i, u) ==
  IF i >= 0 /\ i < Len(cfg.keystream) /\ cfg.keystream[i + 1] # Uninit
  THEN cfg.keystream[i + 1] ELSE u

NoteRead(st, i) == [st EXCEPT !.read = st.read \cup {i}]

enc_char_no_toupper(m, k) ==
  CRem(m + k, CHAR_SPACE)
    + (IF isupper(m) THEN ASCII_HIGHER_OFFSET ELSE ASCII_LOWER_OFFSET)

enc_char(m, k) ==
  CRem(toupper(m) + k, CHAR_SPACE)
    + (IF isupper(m) THEN ASCII_HIGHER_OFFSET ELSE ASCII_LOWER_OFFSET)

dec_char(m, k) ==
  CRem((toupper(m) - k) + CHAR_SPACE, CHAR_SPACE)
    + (IF isupper(m) THEN ASCII_HIGHER_OFFSET ELSE ASCII_LOWER_OFFSET)

enc_pass_keystream(cfg, i) == KsRead(cfg, i, Space)

enc_pass(cfg, i) == CharAt(cfg.message, i)

dec_pass(cfg, i) == CharAt(cfg.message, i)

enc_loop_cond_short(cfg, enc_ctr) == enc_ctr < strlen(cfg.message)

enc_loop_cond(cfg, enc_ctr) == enc_ctr <= strlen(cfg.message)

dec_loop_cond(cfg, dec_ctr) == dec_ctr <= strlen(cfg.message)

RECURSIVE encrypt_loop(_, _, _, _)
encrypt_loop(cfg, enc_ctr, st, u) ==
  IF ~enc_loop_cond(cfg, enc_ctr) THEN st
  ELSE IF ~isalpha(CharAt(cfg.message, enc_ctr))
  THEN encrypt_loop(cfg, enc_ctr + 1,
                    Store(st, enc_ctr, enc_pass(cfg, enc_ctr)), u)
  ELSE encrypt_loop(cfg, enc_ctr + 1,
         NoteRead(Store(st, enc_ctr,
                        enc_char(CharAt(cfg.message, enc_ctr),
                                 KsRead(cfg, enc_ctr, u))), enc_ctr), u)

encrypt(cfg, u) ==
  encrypt_loop(cfg, 0,
               [cells |-> malloc(strlen(cfg.message) + 1),
                written |-> {}, read |-> {}], u)

RECURSIVE decrypt_loop(_, _, _, _)
decrypt_loop(cfg, dec_ctr, st, u) ==
  IF ~dec_loop_cond(cfg, dec_ctr) THEN st
  ELSE IF ~isalpha(CharAt(cfg.message, dec_ctr))
  THEN decrypt_loop(cfg, dec_ctr + 1,
                    Store(st, dec_ctr, dec_pass(cfg, dec_ctr)), u)
  ELSE decrypt_loop(cfg, dec_ctr + 1,
         NoteRead(Store(st, dec_ctr,
                        dec_char(CharAt(cfg.message, dec_ctr),
                                 KsRead(cfg, dec_ctr, u))), dec_ctr), u)

decrypt(cfg, u) ==
  decrypt_loop(cfg, 0,
               [cells |-> malloc(strlen(cfg.message) + 1),
                written |-> {}, read |-> {}], u)

\* The keystream reads of the transform that are undefined.
UndefinedReads(cfg) ==
  {i \in 0..strlen(cfg.message) :
     /\ isalpha(CharAt(cfg.message, i))
     /\ (i >= Len(cfg.keystream) \/ cfg.keystream[i + 1] = Uninit)}

(***************************************************************************)
(* The inputs the model draws.                                             *)
(***************************************************************************)
SeqsUpTo(S, n) == UNION {[1..k -> S] : k \in 0..n}

ProgName == <<46, 47, 118>>                      \* "./v"
Str_dash == <<45>>                               \* "-"
Str_0 == <<48>>                                  \* "0"
Str_1 == <<49>>                                  \* "1"
Str_Az == <<65, 122>>                            \* "Az"
ArgStrings == {Str_empty, Str_dash, Str_h, Str_m, Str_k, Str_0, Str_1, Str_Az}

MsgChars == {65, 90, 122, 45}                    \* 'A', 'Z', 'z', '-'
KeyChars == {75, 101, 92, 126}                   \* 'K', 'e', '\', '~'
UBChars == {NUL, 75}                             \* what an undefined read may yield

Str_KEY == <<75, 69, 89>>                        \* "KEY"
Str_key == <<107, 101, 121>>                     \* "key"
Str_HELLO == <<72, 69, 76, 76, 79>>              \* "HELLO"
Str_HELLO_WORLD == <<72, 69, 76, 76, 79, 32, 87, 79, 82, 76, 68>>
Str_Hello_World == <<72, 101, 108, 108, 111, 44, 32, 87, 111, 114, 108, 100, 33>>
                                                 \* "Hello, World!"
Scenarios == {<<Str_HELLO, Str_KEY>>, <<Str_HELLO_WORLD, Str_KEY>>,
              <<Str_Hello_World, Str_key>>}

\* Every one-character message under every one-character key.
Ascii == 1..127
SinglePairs == {<<<<m>>, <<k>>>> : m \in Ascii, k \in Ascii}

PipeInputs == (SeqsUpTo(MsgChars, MaxLen) \X SeqsUpTo(KeyChars, MaxKeyLen))
                \cup Scenarios \cup SinglePairs

NoConfig == build_config(Encrypt, NullBuf, NullBuf)

(***************************************************************************)
(* Init: the process at the entry of main, with its argv.                  *)
(***************************************************************************)
Init ==
  /\ argv \in {<<ProgName>> \o a : a \in SeqsUpTo(ArgStrings, MaxArgc - 1)}
  /\ pc = "start"
  /\ config = NoConfig
  /\ ks_written = {} /\ ks_read = {} /\ out_written = {}
  /\ stdout = <<>> /\ stderr = <<>>
  /\ exit_status = NotExited
  /\ pass = 1
  /\ orig = NullBuf

(***************************************************************************)
(* InitPipe: a config as build_config returns it, for any message, key and *)
(* mode, at the call of generate_keystream.                                *)
(***************************************************************************)
InitPipe ==
  /\ argv = <<ProgName>>
  /\ pc = "parsed"
  /\ \E in \in PipeInputs, option \in {Encrypt, Decrypt} :
       /\ config = build_config(option, in[1], in[2])
       /\ orig = in[1]
  /\ ks_written = {} /\ ks_read = {} /\ out_written = {}
  /\ stdout = <<>> /\ stderr = <<>>
  /\ exit_status = NotExited
  /\ pass = 1

(***************************************************************************)
(* main: config = parse_args(argc, argv).                                  *)
(***************************************************************************)
Call_parse_args ==
  /\ pc = "start"
  /\ LET r == parse_args(argv) IN
       /\ pc' = IF r.exited THEN "exited" ELSE "parsed"
       /\ stderr' = stderr \o r.stderr
       /\ exit_status' = r.status
       /\ config' = r.config
  /\ UNCHANGED <<argv, ks_written, ks_read, out_written, stdout, pass, orig>>

(***************************************************************************)
(* main: generate_keystream(&config).  With an empty key and a letter in   *)
(* the message the index is computed modulo 0: the process is killed by    *)
(* the division trap, or the division yields some index and the cell gets  *)
(* whatever is read there.                                                 *)
(***************************************************************************)
Call_generate_keystream ==
  /\ pc = "parsed"
  /\ \/ /\ ~KeystreamUndefined(config)
        /\ LET r == generate_keystream(config, <<>>) IN
             /\ config' = [config EXCEPT !.keystream = r.cells]
             /\ ks_written' = r.written
        /\ pc' = "keyed"
        /\ UNCHANGED exit_status
     \/ /\ KeystreamUndefined(config)
        /\ \E g \in [LetterIdx(config.message) -> UBChars] :
             LET r == generate_keystream(config, g) IN
               /\ config' = [config EXCEPT !.keystream = r.cells]
               /\ ks_written' = r.written
        /\ pc' = "keyed"
        /\ UNCHANGED exit_status
     \/ /\ KeystreamUndefined(config)
        /\ pc' = "exited"
        /\ exit_status' = SIGFPE
        /\ UNCHANGED <<config, ks_written>>
  /\ UNCHANGED <<argv, ks_read, out_written, stdout, stderr, pass, orig>>

(***************************************************************************)
(* main: if (config.option == Encrypt) encrypt(&config);                   *)
(***************************************************************************)
Call_encrypt ==
  /\ pc = "keyed"
  /\ config.option = Encrypt
  /\ \E u \in (IF UndefinedReads(config) = {} THEN {NUL} ELSE UBChars) :
       LET r == encrypt(config, u) IN
         /\ config' = [config EXCEPT !.output = r.cells]
         /\ out_written' = r.written
         /\ ks_read' = r.read
  /\ pc' = "transformed"
  /\ UNCHANGED <<argv, ks_written, stdout, stderr, exit_status, pass, orig>>

(***************************************************************************)
(* main: else decrypt(&config);                                            *)
(***************************************************************************)
Call_decrypt ==
  /\ pc = "keyed"
  /\ config.option # Encrypt
  /\ \E u \in (IF UndefinedReads(config) = {} THEN {NUL} ELSE UBChars) :
       LET r == decrypt(config, u) IN
         /\ config' = [config EXCEPT !.output = r.cells]
         /\ out_written' = r.written
         /\ ks_read' = r.read
  /\ pc' = "transformed"
  /\ UNCHANGED <<argv, ks_written, stdout, stderr, exit_status, pass, orig>>

(***************************************************************************)
(* main: printf("%s\n", config.output); return EXIT_SUCCESS;               *)
(***************************************************************************)
Main_printf_return ==
  /\ pc = "transformed"
  /\ stdout' = stdout \o CStr(config.output) \o <<Newline>>
  /\ exit_status' = EXIT_SUCCESS
  /\ pc' = "exited"
  /\ UNCHANGED <<argv, config, ks_written, ks_read, out_written, stderr,
                 pass, orig>>

(***************************************************************************)
(* The second pass of the pipeline: a config built from the first pass's   *)
(* output, the same key and the other mode.                                *)
(***************************************************************************)
SecondPass ==
  /\ pc = "transformed"
  /\ pass = 1
  /\ config' = build_config(IF config.option = Encrypt THEN Decrypt ELSE Encrypt,
                            CStr(config.output), config.key)
  /\ pass' = 2
  /\ pc' = "parsed"
  /\ ks_written' = {} /\ ks_read' = {} /\ out_written' = {}
  /\ UNCHANGED <<argv, stdout, stderr, exit_status, orig>>

Next ==
  \/ Call_parse_args
  \/ Call_generate_keystream
  \/ Call_encrypt
  \/ Call_decrypt
  \/ Main_printf_return

Spec == Init /\ [][Next]_vars

NextPipe ==
  \/ Call_generate_keystream
  \/ Call_encrypt
  \/ Call_decrypt
  \/ SecondPass

SpecPipe == InitPipe /\ [][NextPipe]_vars

(***************************************************************************)
(* The vocabulary of the properties: letters and alphabet positions as the *)
(* specification speaks of them, defined apart from the program's          *)
(* <ctype.h> calls.                                                        *)
(***************************************************************************)
UpperLetters == 65..90
LowerLetters == 97..122
IsLetter(c) == c \in UpperLetters \/ c \in LowerLetters
Uppercase(c) == IF c \in LowerLetters THEN c - 32 ELSE c
AlphaPos(c) == Uppercase(c) - 65
AllLetters(s) == \A i \in 1..Len(s) : IsLetter(s[i])
LettersBefore(m, i) == Cardinality({p \in 1..(i - 1) : IsLetter(m[p])})
Range(s) == {s[i] : i \in 1..Len(s)}

\* What one run of the pipeline prints for (option, message, key), key # "".
Expected(option, message, key) ==
  LET c1 == build_config(option, message, key)
      c2 == [c1 EXCEPT !.keystream = generate_keystream(c1, <<>>).cells]
      out == IF option = Encrypt THEN encrypt(c2, NUL).cells
             ELSE decrypt(c2, NUL).cells
  IN CStr(out) \o <<Newline>>

Transformed == pc = "transformed" /\ Len(config.key) > 0

(***************************************************************************)
(* C1.  Round trip: encrypting M with a non-empty key K and decrypting the *)
(* ciphertext with K gives M back, character for character.                *)
(***************************************************************************)
C1_RoundTrip ==
  (Transformed /\ pass = 2 /\ config.option = Decrypt)
    => CStr(config.output) = orig

(***************************************************************************)
(* C2.  An empty key given after -k is rejected before generate_keystream: *)
(* generate_keystream never runs with key length 0, the program does not   *)
(* exit successfully and writes nothing to standard output.                *)
(***************************************************************************)
\* An empty key on a command line that is well formed in every other
\* respect, so that nothing but the empty key can be what is rejected.
EmptyKeyGiven ==
  /\ Len(argv) = 6
  /\ argv[2] \notin {Str_empty, Str_dash, Str_h}
  /\ argv[3] = Str_m
  /\ argv[4] \in {Str_0, Str_1}
  /\ argv[5] = Str_k
  /\ argv[6] = Str_empty

C2_EmptyKeyRejected ==
  EmptyKeyGiven =>
    /\ pc \notin {"keyed", "transformed"}
    /\ pc = "exited" => (exit_status # EXIT_SUCCESS /\ stdout = <<>>)

(***************************************************************************)
(* C3.  -m is optional: prog MESSAGE -k KEY is accepted, runs in Encrypt   *)
(* mode, prints the ciphertext and exits 0.                                *)
(***************************************************************************)
NoModeFlag ==
  /\ Len(argv) = 4
  /\ argv[2] \notin {Str_empty, Str_dash, Str_h}
  /\ argv[3] = Str_k
  /\ argv[4] # Str_empty

C3_ModeOptional ==
  (NoModeFlag /\ pc = "exited")
    => /\ exit_status = EXIT_SUCCESS
       /\ stdout = Expected(Encrypt, argv[2], argv[4])

(***************************************************************************)
(* C4.  Pass-through: in both modes, for a non-empty key, the output has   *)
(* the length of the message and equals the message at every index where   *)
(* the message has no letter.                                              *)
(***************************************************************************)
C4_PassThrough ==
  Transformed =>
    /\ Len(CStr(config.output)) = Len(config.message)
    /\ \A i \in 1..Len(config.message) :
         ~IsLetter(config.message[i]) => config.output[i] = config.message[i]

C4_Witness ==
  /\ Transformed
  /\ config.option = Decrypt
  /\ \E i, j \in 1..Len(config.message) :
       ~IsLetter(config.message[i]) /\ IsLetter(config.message[j])

(***************************************************************************)
(* C5.  Case preservation: in both modes, for any non-empty ASCII key, the *)
(* output has an uppercase letter where the message has one and a          *)
(* lowercase letter where the message has one.                             *)
(***************************************************************************)
C5_CasePreserved ==
  Transformed =>
    \A i \in 1..Len(config.message) :
      /\ config.message[i] \in UpperLetters => config.output[i] \in UpperLetters
      /\ config.message[i] \in LowerLetters => config.output[i] \in LowerLetters

(***************************************************************************)
(* C6.  Keystream alignment: for a non-empty key, keystream cell i is a    *)
(* non-alphabetic placeholder where the message has no letter, and         *)
(* otherwise the uppercase of key[j mod len(key)], j the number of letters *)
(* of the message before i; "HELLO WORLD" under "KEY" gives "KEYKE YKEYK". *)
(***************************************************************************)
Str_KEYKE_YKEYK == <<75, 69, 89, 75, 69, 32, 89, 75, 69, 89, 75>>

C6_KeystreamAligned ==
  (pc \in {"keyed", "transformed"} /\ Len(config.key) > 0) =>
    /\ Len(config.keystream) >= Len(config.message)
    /\ \A i \in 1..Len(config.message) :
         IF IsLetter(config.message[i])
         THEN config.keystream[i] =
                Uppercase(config.key[(LettersBefore(config.message, i)
                                        % Len(config.key)) + 1])
         ELSE config.keystream[i] \in 0..127 /\ ~IsLetter(config.keystream[i])
    /\ (config.message = Str_HELLO_WORLD /\ config.key = Str_KEY)
         => SubSeq(config.keystream, 1, 11) = Str_KEYKE_YKEYK

C6_Witness ==
  /\ pc = "keyed"
  /\ config.message = Str_HELLO_WORLD
  /\ config.key = Str_KEY
  /\ SubSeq(config.keystream, 1, 11) = Str_KEYKE_YKEYK

(***************************************************************************)
(* C7.  Shift arithmetic: for a key made of letters, where the message has *)
(* a letter at alphabet position m and the keystream one at position k,    *)
(* encrypt outputs the letter at (m + k) mod 26 and decrypt the letter at   *)
(* (m - k + 26) mod 26; encrypting "HELLO" under "KEY" gives "RIJVS".      *)
(***************************************************************************)
Str_RIJVS == <<82, 73, 74, 86, 83>>

C7_ShiftArithmetic ==
  (Transformed /\ AllLetters(config.key)) =>
    /\ \A i \in 1..Len(config.message) :
         IsLetter(config.message[i]) =>
           LET m == AlphaPos(config.message[i])
               k == AlphaPos(config.keystream[i])
           IN /\ IsLetter(config.output[i])
              /\ AlphaPos(config.output[i]) =
                   IF config.option = Encrypt THEN (m + k) % 26
                   ELSE (m - k + 26) % 26
    /\ (config.message = Str_HELLO /\ config.key = Str_KEY
          /\ config.option = Encrypt)
         => CStr(config.output) = Str_RIJVS

C7_Witness ==
  /\ Transformed
  /\ config.message = Str_HELLO
  /\ config.key = Str_KEY
  /\ config.option = Encrypt
  /\ CStr(config.output) = Str_RIJVS

(***************************************************************************)
(* C8.  Usage errors: an invocation with no arguments, an empty message, a *)
(* second argument other than "-m", a missing or non-digit mode value, a   *)
(* fourth argument other than "-k" or a missing key value ends with the    *)
(* usage line on standard error, exit code 1 and nothing on standard       *)
(* output, without running the keystream or transform step.                *)
(***************************************************************************)
Malformed ==
  \/ Len(argv) < 2
  \/ argv[2] = Str_empty
  \/ Len(argv) >= 3 /\ argv[3] # Str_m
  \/ Len(argv) < 4
  \/ Len(argv) >= 4 /\ ~(CharAt(argv[4], 0) \in 48..57)
  \/ Len(argv) >= 5 /\ argv[5] # Str_k
  \/ Len(argv) < 6

C8_UsageError ==
  (Malformed /\ pc # "start") =>
    /\ pc = "exited"
    /\ exit_status = EXIT_FAILURE
    /\ usage_str \in Range(stderr)
    /\ stdout = <<>>

(***************************************************************************)
(* C9.  Success path: prog MESSAGE -m MODE -k KEY with MESSAGE non-empty   *)
(* and not "-h", MODE 0 or 1 and KEY non-empty ends with exit code 0 and   *)
(* exactly the transformed text and a newline on standard output.          *)
(***************************************************************************)
WellFormed ==
  /\ Len(argv) = 6
  /\ argv[2] \notin {Str_empty, Str_h}
  /\ argv[3] = Str_m
  /\ argv[4] \in {Str_0, Str_1}
  /\ argv[5] = Str_k
  /\ argv[6] # Str_empty

C9_SuccessPath ==
  (WellFormed /\ pc = "exited") =>
    /\ exit_status = EXIT_SUCCESS
    /\ stdout = Expected(IF argv[4] = Str_0 THEN Encrypt ELSE Decrypt,
                         argv[2], argv[6])

(***************************************************************************)
(* C10.  Buffer safety: generate_keystream writes keystream cells          *)
(* 0..len(M)-1 only and leaves cell len(M) uninitialised; encrypt and      *)
(* decrypt store to output cells 0..len(M), all inside the len(M)+1 cells  *)
(* allocated, read the keystream only at cells generate_keystream wrote,   *)
(* and leave the terminator in Output[len(M)].                             *)
(***************************************************************************)
C10_BufferSafe ==
  LET n == Len(config.message) IN
  /\ pc \in {"keyed", "transformed"} =>
       /\ Len(config.keystream) = n + 1
       /\ ks_written = 0..(n - 1)
       /\ config.keystream[n + 1] = Uninit
  /\ pc = "transformed" =>
       /\ Len(config.output) = n + 1
       /\ out_written = 0..n
       /\ ks_read \subseteq ks_written
       /\ config.output[n + 1] = NUL

C10_Witness ==
  /\ pc = "transformed"
  /\ config.option = Decrypt
  /\ ks_read # {}
  /\ ks_read # ks_written

====
